---- MODULE Spec2Model ----
(***************************************************************************)
(* A model of calc.py: the solar panel, battery and energy-plan objects,  *)
(* the functions that step them (solar_sim, battery_sim, e13_usage,        *)
(* e13_total, e15_usage, e15_total) and the script's simulation loop.      *)
(*                                                                         *)
(* Python floats are modelled as exact rationals <<n, d>> (d > 0, lowest   *)
(* terms); rounding error is not modelled.  np.mean of an empty list is    *)
(* the value NaN, every comparison with which is false.                    *)
(***************************************************************************)
EXTENDS Integers, Sequences, FiniteSets, TLC

VARIABLES
    panels,         \* the module-level list of SolarPanel objects
    batteries,      \* the module-level list of Battery objects
    plans,          \* the module-level list of EnergyPlan objects
    cur,            \* the objects the loop variables panel, battery, plan name
    twin,           \* an EnergyPlan constructed afresh, fed the same calls
    calls,          \* number of calls made so far
    lastOp,         \* the last operation performed
    lastArg,        \* its arguments
    lastRet,        \* its return value
    lastExc,        \* the exception it raised, or "none"
    clamp,          \* battery_sim's e_resid and e_sys after the inverter clamp
    peakMean,       \* e15_total's np.mean(self.daily_peaks)
    sumIn,          \* sum of the net energies passed to battery_sim
    sumRet,         \* sum of the residuals battery_sim returned
    twinRet,        \* what the twin returned for the last operation
    pre,            \* the object the last call was made on, as it was before
    dayMax,         \* largest energy given in an on-peak hour since the last 0h call
    clock,          \* the hour an hourly driver simulates next
    pc,             \* position of the script
    today,          \* the loop variable today, as a day of the year
    monthly_bills,  \* the loop's list of bills
    results,        \* the script's results dictionary
    load_data,      \* rows of the utility file
    solar_data      \* rows of the weather file

vars == <<panels, batteries, plans, cur, twin, calls, lastOp, lastArg, lastRet,
          lastExc, clamp, peakMean, sumIn, sumRet, twinRet, pre, dayMax, clock,
          pc, today, monthly_bills, results, load_data, solar_data>>

-----------------------------------------------------------------------------
(* Bounds of the model *)

\* calls made by a driver of the battery
MaxCalls == 3
\* calls made by a driver of an energy plan
MaxPlanCalls == 4
\* calls made by a driver of the equipment combinations
MaxOps == 4
\* rows of the utility file
MaxRows == 2
MaxPanelCalls == 3

-----------------------------------------------------------------------------
(* Float arithmetic, as exact rationals *)

Abs(n) == IF n < 0 THEN -n ELSE n

RECURSIVE GCD(_, _)
GCD(a, b) == IF b = 0 THEN a ELSE GCD(b, a % b)

Frac(n, d) ==
    LET s == IF d < 0 THEN -1 ELSE 1
        g == GCD(Abs(n), Abs(d))
    IN  <<(s * n) \div g, (s * d) \div g>>

R(n) == <<n, 1>>

RAdd(a, b) == Frac(a[1] * b[2] + b[1] * a[2], a[2] * b[2])
RNeg(a) == <<-a[1], a[2]>>
RSub(a, b) == RAdd(a, RNeg(b))
RMul(a, b) == Frac(a[1] * b[1], a[2] * b[2])
RDiv(a, b) == Frac(a[1] * b[2], a[2] * b[1])
RLt(a, b) == a[1] * b[2] < b[1] * a[2]
RLe(a, b) == a[1] * b[2] <= b[1] * a[2]

\* float('nan'): no rational; every comparison with it is false
NaN == <<0, 0>>
IsNaN(x) == x[2] = 0

\* simulation time step size (hr)
time_step == 1

-----------------------------------------------------------------------------
(* class Battery *)

Battery(name, capacity, max_power, efficiency) ==
    [name |-> name, capacity |-> capacity, max_power |-> max_power,
     efficiency |-> efficiency, soc |-> R(0)]

\* battery_sim, lines 102-113: the inverter's limit on the energy of one step
InverterClamp(battery, e_sys) ==
    LET battery_emax == RMul(battery.max_power, R(time_step))
    IN  IF RLt(battery_emax, e_sys)
        THEN [e_resid |-> RSub(e_sys, battery_emax), e_sys |-> battery_emax]
        ELSE IF RLt(e_sys, RNeg(battery_emax))
        THEN [e_resid |-> RSub(e_sys, battery_emax), e_sys |-> RNeg(battery_emax)]
        ELSE [e_resid |-> R(0), e_sys |-> e_sys]

\* battery_sim, lines 115-126, without the saturation branches
StoreNoSaturation(battery, e_resid, e_tot) ==
    [battery |-> IF battery.capacity # R(0)
                 THEN [battery EXCEPT !.soc = RDiv(e_tot, battery.capacity)]
                 ELSE [battery EXCEPT !.soc = e_tot],
     ret |-> e_resid]

\* battery_sim, lines 115-126, with the overflow of line 119 returned unscaled
StoreSpillUnscaled(battery, e_resid, e_tot) ==
    IF RLt(battery.capacity, e_tot)
    THEN [battery |-> [battery EXCEPT !.soc = R(1)],
          ret |-> RAdd(e_resid, RSub(e_tot, battery.capacity))]
    ELSE IF RLt(e_tot, R(0))
    THEN [battery |-> [battery EXCEPT !.soc = R(0)],
          ret |-> RAdd(e_resid, e_tot)]
    ELSE [battery |-> IF battery.capacity # R(0)
                      THEN [battery EXCEPT !.soc = RDiv(e_tot, battery.capacity)]
                      ELSE battery,
          ret |-> e_resid]

\* battery_sim, lines 115-126: the new state of charge and the value returned
Store(battery, e_resid, e_tot) ==
    IF RLt(battery.capacity, e_tot)
    THEN [battery |-> [battery EXCEPT !.soc = R(1)],
          ret |-> RAdd(e_resid, RMul(battery.efficiency,
                                     RSub(e_tot, battery.capacity)))]
    ELSE IF RLt(e_tot, R(0))
    THEN [battery |-> [battery EXCEPT !.soc = R(0)],
          ret |-> RAdd(e_resid, e_tot)]
    ELSE [battery |-> IF battery.capacity # R(0)
                      THEN [battery EXCEPT !.soc = RDiv(e_tot, battery.capacity)]
                      ELSE battery,
          ret |-> e_resid]

battery_sim(battery, e_sys) ==
    LET c == InverterClamp(battery, e_sys)
        e_tot == RAdd(RMul(battery.soc, battery.capacity), c.e_sys)
        s == Store(battery, c.e_resid, e_tot)
    IN  [battery |-> s.battery, ret |-> s.ret, clamp |-> c]

-----------------------------------------------------------------------------
(* class SolarPanel *)

SolarPanel(name, power_stc, tcp, degradation, nmot, efficiency) ==
    [name |-> name, power |-> power_stc, tcp |-> tcp,
     degradation |-> degradation, nmot |-> nmot, efficiency |-> efficiency]

\* solar_sim, line 94, with the degradation left out
DegradeNot(panel) == panel

\* solar_sim, line 94, with the sign of the degradation term turned
DegradeGrow(panel) ==
    [panel EXCEPT !.power =
        RMul(panel.power, RAdd(R(1), RDiv(panel.degradation, R(24 * 365))))]

\* solar_sim, line 94: the panel's power after one time step
Degrade(panel) ==
    [panel EXCEPT !.power =
        RMul(panel.power, RSub(R(1), RDiv(panel.degradation, R(24 * 365))))]

\* solar_sim: temp_a is not used, the panel temperature is the constant 40
solar_sim(panel, irr, temp_a) ==
    LET irr_stc == R(1)
        temp_stc == R(25)
        temp_p == R(40)
        pout == RMul(RDiv(RMul(RMul(panel.power, panel.efficiency), irr), irr_stc),
                     RAdd(R(1), RMul(panel.tcp, RSub(temp_p, temp_stc))))
    IN  [panel |-> Degrade(panel), ret |-> RMul(pout, R(time_step))]

-----------------------------------------------------------------------------
(* class EnergyPlan *)

\* EnergyPlan.reset with daily_peaks forgotten
resetKeepsPeaks(self) == [self EXCEPT !.peak = R(0), !.usage_cost = R(0)]

\* EnergyPlan.reset
reset(self) ==
    [self EXCEPT !.peak = R(0), !.daily_peaks = <<>>, !.usage_cost = R(0)]

\* EnergyPlan.__init__: the attributes do not exist before reset() sets them
EnergyPlan(name) ==
    reset([name |-> name, peak |-> R(0), daily_peaks |-> <<>>, usage_cost |-> R(0)])

\* datetime.weekday(): Monday is 0, Sunday is 6
Time(month, day, hour, weekday) ==
    [month |-> month, day |-> day, hour |-> hour, weekday |-> weekday]

\* the summer on-peak test without its weekday part
SummerHoursAnyDay(time) == time.hour >= 14 /\ time.hour < 20

SummerHours(time) == time.hour >= 14 /\ time.hour < 20 /\ time.weekday < 5

WinterHours(time) ==
    /\ (time.hour >= 5 /\ time.hour < 9) \/ (time.hour >= 17 /\ time.hour < 21)
    /\ time.weekday < 5

\* the if/elif/else over time.month that e13_usage, e15_usage, e15_total share
Season(time) ==
    IF time.month = 7 \/ time.month = 8 THEN "summer_peak"
    ELSE IF time.month <= 4 \/ time.month >= 11 THEN "winter"
    ELSE "summer"

OnPeak(time) ==
    IF Season(time) = "winter" THEN WinterHours(time) ELSE SummerHours(time)

\* e13_usage without the test of line 136: exports at the rate of the hour
e13_rateOfHour(time, energy) ==
    CASE Season(time) = "summer_peak" ->
            IF OnPeak(time) THEN Frac(2409, 10000) ELSE Frac(730, 10000)
      [] Season(time) = "winter" ->
            IF OnPeak(time) THEN Frac(951, 10000) ELSE Frac(691, 10000)
      [] OTHER ->
            IF OnPeak(time) THEN Frac(2094, 10000) ELSE Frac(727, 10000)

e13_rate(time, energy) ==
    IF energy[1] > 0
    THEN CASE Season(time) = "summer_peak" ->
                IF OnPeak(time) THEN Frac(2409, 10000) ELSE Frac(730, 10000)
           [] Season(time) = "winter" ->
                IF OnPeak(time) THEN Frac(951, 10000) ELSE Frac(691, 10000)
           [] OTHER ->
                IF OnPeak(time) THEN Frac(2094, 10000) ELSE Frac(727, 10000)
    ELSE Frac(281, 10000)

e13_usage(self, time, energy) ==
    [plan |-> [self EXCEPT !.usage_cost =
                    RAdd(self.usage_cost, RMul(energy, e13_rate(time, energy)))],
     exc |-> "none"]

service_charge == Frac(3244, 100)

\* e13_total with the test of line 168 left out
e13_totalNoFloor(self, time) ==
    [plan |-> reset(self), ret |-> RAdd(service_charge, self.usage_cost),
     exc |-> "none"]

e13_total(self, time) ==
    LET total_cost == IF RLt(R(0), self.usage_cost)
                      THEN RAdd(service_charge, self.usage_cost)
                      ELSE service_charge
    IN  [plan |-> reset(self), ret |-> total_cost, exc |-> "none"]

e15_rate(time) ==
    CASE Season(time) = "summer_peak" ->
            IF OnPeak(time) THEN Frac(622, 10000) ELSE Frac(412, 10000)
      [] Season(time) = "winter" ->
            IF OnPeak(time) THEN Frac(410, 10000) ELSE Frac(370, 10000)
      [] OTHER ->
            IF OnPeak(time) THEN Frac(462, 10000) ELSE Frac(360, 10000)

\* e15_usage with the on-peak test dropped from the peak update of lines 206-209
e15_usagePeakAnyHour(self, time, energy) ==
    LET opened == IF time.hour = 0
                  THEN [self EXCEPT !.daily_peaks = Append(self.daily_peaks, R(0))]
                  ELSE self
        charged == [opened EXCEPT !.usage_cost =
                        RAdd(opened.usage_cost, RMul(energy, e15_rate(time)))]
        n == Len(charged.daily_peaks)
    IN  IF n = 0 THEN [plan |-> charged, exc |-> "IndexError"]
        ELSE IF RLt(charged.daily_peaks[n], energy)
        THEN [plan |-> [charged EXCEPT !.daily_peaks[n] = energy], exc |-> "none"]
        ELSE [plan |-> charged, exc |-> "none"]

\* self.daily_peaks[-1] raises IndexError on an empty list, after usage_cost
\* has been updated
e15_usage(self, time, energy) ==
    LET opened == IF time.hour = 0
                  THEN [self EXCEPT !.daily_peaks = Append(self.daily_peaks, R(0))]
                  ELSE self
        charged == [opened EXCEPT !.usage_cost =
                        RAdd(opened.usage_cost, RMul(energy, e15_rate(time)))]
        n == Len(charged.daily_peaks)
    IN  IF ~OnPeak(time) THEN [plan |-> charged, exc |-> "none"]
        ELSE IF n = 0 THEN [plan |-> charged, exc |-> "IndexError"]
        ELSE IF RLt(charged.daily_peaks[n], energy)
        THEN [plan |-> [charged EXCEPT !.daily_peaks[n] = energy], exc |-> "none"]
        ELSE [plan |-> charged, exc |-> "none"]

\* the sum np.mean divides, taken by halves
RECURSIVE SumSeq(_)
SumSeq(s) ==
    IF s = <<>> THEN R(0)
    ELSE IF Len(s) = 1 THEN s[1]
    ELSE LET h == Len(s) \div 2
         IN  RAdd(SumSeq(SubSeq(s, 1, h)), SumSeq(SubSeq(s, h + 1, Len(s))))

\* np.mean: NaN (with a RuntimeWarning, not an exception) for an empty list
mean(s) == IF s = <<>> THEN NaN ELSE RDiv(SumSeq(s), R(Len(s)))

demand_rate(time) ==
    CASE Season(time) = "summer_peak" -> Frac(2194, 100)
      [] Season(time) = "winter" -> Frac(1929, 100)
      [] OTHER -> Frac(813, 100)

\* e15_total with the test of line 227 left out
e15_totalNoFloor(self, time) ==
    LET m == mean(self.daily_peaks)
        average_peak_charge == IF IsNaN(m) THEN R(0) ELSE RMul(m, demand_rate(time))
    IN  [plan |-> reset(self),
         ret |-> RAdd(RAdd(service_charge, self.usage_cost), average_peak_charge),
         exc |-> "none", mean |-> m]

e15_total(self, time) ==
    LET m == mean(self.daily_peaks)
        average_peak_charge == IF IsNaN(m) THEN NaN ELSE RMul(m, demand_rate(time))
        positive == /\ ~IsNaN(average_peak_charge)
                    /\ RLt(R(0), RAdd(self.usage_cost, average_peak_charge))
        total_cost == IF positive
                      THEN RAdd(RAdd(service_charge, self.usage_cost),
                                average_peak_charge)
                      ELSE service_charge
    IN  [plan |-> reset(self), ret |-> total_cost, exc |-> "none", mean |-> m]

\* the methods EnergyPlan.__init__ binds to the instance, lines 53-55 and 249-250
calc_usage_cost(self, time, energy) ==
    IF self.name = "E13" THEN e13_usage(self, time, energy)
    ELSE e15_usage(self, time, energy)

calc_total_cost(self, time) ==
    IF self.name = "E13"
    THEN e13_total(self, time) @@ [mean |-> R(0)]
    ELSE e15_total(self, time)

-----------------------------------------------------------------------------
(* Inputs *)

\* the batteries of the script (lines 246-247) and a grid of other configurations
BatteryConfigs ==
    {Battery("None", R(0), R(0), R(0)), Battery("Tesla", Frac(27, 2), R(5), Frac(9, 10))}
    \cup {Battery("B", R(c), R(p), f) :
            c \in {0, 2, 100}, p \in {0, 2, 5}, f \in {Frac(9, 10), R(1)}}

Energies == {R(x) : x \in {-10, -3, -1, 0, 1, 3, 10}} \cup {Frac(1, 2)}

\* Monday 0h and 18h in January, Monday and Saturday 15h in July, Monday 15h in May
PlanTimes ==
    {Time(1, 6, 0, 0), Time(1, 6, 18, 0), Time(7, 6, 15, 0), Time(7, 4, 15, 5),
     Time(5, 4, 15, 0)}

PlanEnergies == {R(-10), R(5)}

\* the last hour of January, May and July 2020
SettleTimes == {Time(1, 31, 23, 4), Time(5, 31, 23, 6), Time(7, 31, 23, 4)}

\* The panels of the script (lines 241-244) degrade by factors such as
\* 1 - 0.0033/8760, whose powers leave the integers TLC has.  The catalogue keeps
\* 'None' and puts in the place of the others one panel with LG's coefficients
\* and a degradation rate whose hourly factor is 1/2.
PanelCatalogue ==
    <<SolarPanel("None", R(0), R(0), R(0), R(0), R(0)),
      SolarPanel("P", R(1), Frac(-9, 2500), R(4380), R(42), Frac(19, 20))>>

BatteryCatalogue ==
    <<Battery("None", R(0), R(0), R(0)),
      Battery("Tesla", Frac(27, 2), R(5), Frac(9, 10))>>

PlanCatalogue == <<EnergyPlan("E13"), EnergyPlan("E15")>>

-----------------------------------------------------------------------------
(* Calls of the functions on the objects the loop variables name *)

NoArg == [e |-> R(0), time |-> Time(0, 0, 0, 0)]
NoClamp == [e_resid |-> R(0), e_sys |-> R(0)]

InitGhosts ==
    /\ calls = 0
    /\ lastOp = "init"
    /\ lastArg = NoArg
    /\ lastRet = R(0)
    /\ lastExc = "none"
    /\ clamp = NoClamp
    /\ peakMean = R(0)
    /\ sumIn = R(0)
    /\ sumRet = R(0)
    /\ twinRet = R(0)
    /\ pre = NoArg
    /\ dayMax = R(0)

InitDriver == InitGhosts /\ clock = NoArg.time

InitScript ==
    /\ pc = "idle"
    /\ today = 0
    /\ monthly_bills = <<>>
    /\ results = <<>>
    /\ load_data = <<>>
    /\ solar_data = <<>>

scriptVars == <<pc, today, monthly_bills, results, load_data, solar_data>>

\* line 323, inner call: solar_sim(panel, irradiance, temp)
SolarSimCall(irr, temp) ==
    /\ cur.panel # 0
    /\ LET r == solar_sim(panels[cur.panel], irr, temp)
       IN  /\ panels' = [panels EXCEPT ![cur.panel] = r.panel]
           /\ lastRet' = r.ret
    /\ lastOp' = "solar_sim"
    /\ lastArg' = [e |-> irr, time |-> NoArg.time]
    /\ lastExc' = "none"
    /\ calls' = calls + 1
    /\ pre' = panels[cur.panel]
    /\ UNCHANGED <<batteries, plans, cur, twin, clamp, peakMean, sumIn, sumRet,
                   twinRet, dayMax, clock>>
    /\ UNCHANGED scriptVars

\* line 323, outer call: battery_sim(battery, e_sys)
BatterySimCall(e_sys) ==
    /\ cur.battery # 0
    /\ LET r == battery_sim(batteries[cur.battery], e_sys)
       IN  /\ batteries' = [batteries EXCEPT ![cur.battery] = r.battery]
           /\ lastRet' = r.ret
           /\ clamp' = r.clamp
           /\ sumRet' = RAdd(sumRet, r.ret)
    /\ sumIn' = RAdd(sumIn, e_sys)
    /\ lastOp' = "battery_sim"
    /\ lastArg' = [e |-> e_sys, time |-> NoArg.time]
    /\ lastExc' = "none"
    /\ calls' = calls + 1
    /\ pre' = batteries[cur.battery]
    /\ UNCHANGED <<panels, plans, cur, twin, peakMean, twinRet, dayMax, clock>>
    /\ UNCHANGED scriptVars

\* line 324: plan.calc_usage_cost(time, grid_energy), and what it leaves alone
\* but for the position of the caller
UsageStep(time, energy) ==
    /\ cur.plan # 0
    /\ LET r == calc_usage_cost(plans[cur.plan], time, energy)
       IN  /\ plans' = [plans EXCEPT ![cur.plan] = r.plan]
           /\ lastExc' = r.exc
    /\ twin' = calc_usage_cost(twin, time, energy).plan
    /\ lastOp' = "calc_usage_cost"
    /\ lastArg' = [e |-> energy, time |-> time]
    /\ lastRet' = R(0)
    /\ calls' = calls + 1
    /\ pre' = plans[cur.plan]
    /\ dayMax' = LET opened == IF time.hour = 0 THEN R(0) ELSE dayMax
                 IN  IF OnPeak(time) /\ RLt(opened, energy) THEN energy ELSE opened
    /\ UNCHANGED <<panels, batteries, cur, clamp, peakMean, sumIn, sumRet, twinRet>>
    /\ UNCHANGED <<today, monthly_bills, results, load_data, solar_data>>

CalcUsageCostCall(time, energy) == UsageStep(time, energy) /\ UNCHANGED <<pc, clock>>

\* line 327: monthly_bills.append(plan.calc_total_cost(time)); the twin settles
\* too and is replaced by a newly constructed plan
TotalStep(time) ==
    /\ cur.plan # 0
    /\ LET r == calc_total_cost(plans[cur.plan], time)
       IN  /\ plans' = [plans EXCEPT ![cur.plan] = r.plan]
           /\ lastRet' = r.ret
           /\ lastExc' = r.exc
           /\ peakMean' = r.mean
           /\ monthly_bills' = Append(monthly_bills, r.ret)
    /\ twinRet' = calc_total_cost(twin, time).ret
    /\ twin' = EnergyPlan(twin.name)
    /\ lastOp' = "calc_total_cost"
    /\ lastArg' = [e |-> R(0), time |-> time]
    /\ calls' = calls + 1
    /\ pre' = plans[cur.plan]
    /\ UNCHANGED <<panels, batteries, cur, clamp, sumIn, sumRet, dayMax>>
    /\ UNCHANGED <<today, results, load_data, solar_data>>

CalcTotalCostCall(time) == TotalStep(time) /\ UNCHANGED <<pc, clock>>

\* lines 288-293: the for loops bind panel, battery and plan to objects of the
\* module-level lists and start a run; nothing is constructed
SelectCombination(i, j, k) ==
    /\ cur' = [panel |-> i, battery |-> j, plan |-> k]
    /\ monthly_bills' = <<>>
    /\ today' = 1
    /\ twin' = EnergyPlan(plans[k].name)
    /\ lastOp' = "select"
    /\ lastArg' = NoArg
    /\ lastRet' = R(0)
    /\ lastExc' = "none"
    /\ calls' = calls + 1
    /\ UNCHANGED <<panels, batteries, plans, clamp, peakMean, sumIn, sumRet, twinRet>>
    /\ UNCHANGED <<pre, dayMax, clock, results, load_data, solar_data>>

-----------------------------------------------------------------------------
(* A battery of any configuration under any sequence of battery_sim calls *)

InitBattery ==
    /\ panels = <<>>
    /\ plans = <<>>
    /\ \E b \in BatteryConfigs : batteries = <<b>>
    /\ cur = [panel |-> 0, battery |-> 1, plan |-> 0]
    /\ twin = EnergyPlan("E13")
    /\ InitDriver
    /\ InitScript

NextBattery == calls < MaxCalls /\ \E e \in Energies : BatterySimCall(e)

SpecBattery == InitBattery /\ [][NextBattery]_vars

-----------------------------------------------------------------------------
(* An energy plan under any sequence of calc_usage_cost and calc_total_cost *)

InitPlan ==
    /\ panels = <<>>
    /\ batteries = <<>>
    /\ \E n \in {"E13", "E15"} : plans = <<EnergyPlan(n)>> /\ twin = EnergyPlan(n)
    /\ cur = [panel |-> 0, battery |-> 0, plan |-> 1]
    /\ InitDriver
    /\ InitScript

NextPlan ==
    \/ \E t \in PlanTimes, e \in PlanEnergies :
            calls < MaxPlanCalls /\ CalcUsageCostCall(t, e)
    \/ \E t \in SettleTimes : calls < MaxPlanCalls /\ CalcTotalCostCall(t)

SpecPlan == InitPlan /\ [][NextPlan]_vars

-----------------------------------------------------------------------------
(* Properties of the battery, checked under SpecBattery *)

\* the configurations the contract covers: capacity >= 0, max_power >= 0,
\* 0 < efficiency <= 1
InContract(b) ==
    /\ RLe(R(0), b.capacity)
    /\ RLe(R(0), b.max_power)
    /\ RLt(R(0), b.efficiency)
    /\ RLe(b.efficiency, R(1))

\* C1: after every battery_sim call, from soc = 0 and for every configuration,
\* the state of charge is at least 0 and at most 1.
C1_SocBounds ==
    \A i \in DOMAIN batteries :
        RLe(R(0), batteries[i].soc) /\ RLe(batteries[i].soc, R(1))

\* C1's case: a second call has left a battery of positive capacity partly charged
C1_Witness ==
    /\ lastOp = "battery_sim"
    /\ calls >= 2
    /\ InContract(batteries[1])
    /\ RLt(R(0), batteries[1].soc)
    /\ RLt(batteries[1].soc, R(1))

\* C2: the net energies passed in sum to the residuals returned plus the energy
\* now stored (soc x capacity; the battery started empty).
C2_EnergyConserved ==
    (cur.battery # 0 /\ InContract(batteries[1])) =>
        sumIn = RAdd(sumRet, RMul(batteries[1].soc, batteries[1].capacity))

\* C3: a battery of capacity 0 returns the net energy it was given.
C3_ZeroCapacityPassThrough ==
    (/\ lastOp = "battery_sim"
     /\ InContract(batteries[1])
     /\ batteries[1].capacity = R(0)) => lastRet = lastArg.e

\* C4: the state of charge of a battery of capacity 0 stays at 0.
C4_ZeroCapacitySocStays ==
    (/\ cur.battery # 0
     /\ InContract(batteries[1])
     /\ batteries[1].capacity = R(0)) => batteries[1].soc = R(0)

\* C5: with L = max_power x time_step, net energy e above L offers L to the
\* battery and leaves e - L; e below -L offers -L and leaves e + L.
C5_ClampSymmetric ==
    (lastOp = "battery_sim" /\ InContract(batteries[1])) =>
        LET L == RMul(batteries[1].max_power, R(time_step))
            e == lastArg.e
        IN  /\ RLt(L, e) => clamp.e_sys = L /\ clamp.e_resid = RSub(e, L)
            /\ RLt(e, RNeg(L)) =>
                    clamp.e_sys = RNeg(L) /\ clamp.e_resid = RAdd(e, L)

\* C16: with c the energy the inverter clamp lets through and r the residual
\* it leaves, and t = soc x capacity + c before the call: t above the capacity
\* sets soc to 1 and returns r + efficiency x (t - capacity); t below 0 sets soc
\* to 0 and returns r + t; otherwise r is returned.
C16_Saturation ==
    lastOp = "battery_sim" =>
        LET r == clamp.e_resid
            t == RAdd(RMul(pre.soc, pre.capacity), clamp.e_sys)
        IN  IF RLt(pre.capacity, t)
            THEN /\ batteries[1].soc = R(1)
                 /\ lastRet = RAdd(r, RMul(pre.efficiency, RSub(t, pre.capacity)))
            ELSE IF RLt(t, R(0))
            THEN /\ batteries[1].soc = R(0)
                 /\ lastRet = RAdd(r, t)
            ELSE lastRet = r

\* C16's case: the inverter limits the step and the battery overflows in it, with
\* an efficiency below 1
C16_Witness ==
    /\ lastOp = "battery_sim"
    /\ InContract(pre)
    /\ RLt(pre.efficiency, R(1))
    /\ RLt(R(0), clamp.e_resid)
    /\ RLt(pre.capacity, RAdd(RMul(pre.soc, pre.capacity), clamp.e_sys))
    /\ RLt(R(0), pre.capacity)
    /\ RLt(R(0), pre.soc)
    /\ batteries[1].soc = R(1)

-----------------------------------------------------------------------------
(* Properties of the energy plans, checked under SpecPlan *)

\* C7: calc_total_cost leaves the plan as a newly constructed plan is, and every
\* bill equals the bill of a plan that was newly constructed when the previous
\* bill was made and has been given the same calc_usage_cost calls since.
C7_SettleResets ==
    (lastOp = "calc_total_cost" /\ cur.plan # 0) =>
        /\ plans[cur.plan] = EnergyPlan(plans[cur.plan].name)
        /\ plans[cur.plan] = twin
        /\ lastRet = twinRet

\* C7's case: a second bill, both billing periods having had usage that raised
\* the bill above the service charge
C7_Witness ==
    /\ lastOp = "calc_total_cost"
    /\ Len(monthly_bills) = 2
    /\ RLt(service_charge, monthly_bills[1])
    /\ RLt(service_charge, monthly_bills[2])

\* C10: under E15, calc_total_cost with an empty daily_peaks list raises a
\* ConfigurationError.
C10_EmptyPeaksFatal ==
    (/\ lastOp = "calc_total_cost"
     /\ cur.plan # 0
     /\ plans[cur.plan].name = "E15"
     /\ IsNaN(peakMean)) => lastExc = "ConfigurationError"

\* C11: under E13, calc_total_cost returns the service charge when the
\* accumulated usage cost is <= 0, and the service charge plus the usage cost
\* when it is > 0.
C11_E13Bill ==
    (lastOp = "calc_total_cost" /\ pre.name = "E13") =>
        lastRet = IF RLe(pre.usage_cost, R(0)) THEN service_charge
                  ELSE RAdd(service_charge, pre.usage_cost)

\* C11's case: an E13 period of net export is billed the service charge
C11_Witness ==
    /\ lastOp = "calc_total_cost"
    /\ pre.name = "E13"
    /\ RLt(pre.usage_cost, R(0))
    /\ lastRet = service_charge

\* C12: every bill, of E13 and of E15, is at least the service charge.
C12_BillAtLeastServiceCharge ==
    \A i \in DOMAIN monthly_bills : RLe(service_charge, monthly_bills[i])

\* C12's case: an E15 period with a daily peak slot and net export is billed
\* the service charge
C12_Witness ==
    /\ lastOp = "calc_total_cost"
    /\ pre.name = "E15"
    /\ pre.daily_peaks # <<>>
    /\ RLt(pre.usage_cost, R(0))
    /\ lastRet = service_charge

-----------------------------------------------------------------------------
(* One calc_usage_cost call, at any month, hour and weekday *)

AllTimes == {Time(m, 1, h, w) : m \in 1..12, h \in 0..23, w \in 0..6}

UsageEnergies == {R(-10), Frac(-1, 2), R(0), R(5)}

\* plans as calls leave them: new; E13 after an import; E15 after the 0h call
\* of a day; E15 after an on-peak import of 2 kWh on that day
UsagePlans ==
    LET e13 == EnergyPlan("E13")
        e15 == EnergyPlan("E15")
        opened == e15_usage(e15, Time(7, 6, 0, 0), R(0)).plan
    IN  {e13, e13_usage(e13, Time(1, 6, 0, 0), R(5)).plan,
         e15, opened, e15_usage(opened, Time(7, 6, 15, 0), R(2)).plan}

InitUsage ==
    /\ panels = <<>>
    /\ batteries = <<>>
    /\ \E p \in UsagePlans : plans = <<p>> /\ twin = EnergyPlan(p.name)
    /\ cur = [panel |-> 0, battery |-> 0, plan |-> 1]
    /\ InitDriver
    /\ InitScript

NextUsage ==
    lastOp = "init" /\ \E t \in AllTimes, e \in UsageEnergies : CalcUsageCostCall(t, e)

SpecUsage == InitUsage /\ [][NextUsage]_vars

\* C14: under E13 a call with negative energy e adds e x 0.0281 to the usage
\* cost, whatever the month, the hour and the weekday.
C14_E13ExportRate ==
    (/\ lastOp = "calc_usage_cost"
     /\ pre.name = "E13"
     /\ RLt(lastArg.e, R(0))) =>
        /\ lastExc = "none"
        /\ plans[1].usage_cost =
                RAdd(pre.usage_cost, RMul(lastArg.e, Frac(281, 10000)))

\* C14's case: an export of 10 kWh on a Monday at 15h in July, an on-peak hour
C14_Witness ==
    /\ lastOp = "calc_usage_cost"
    /\ pre.name = "E13"
    /\ lastArg = [e |-> R(-10), time |-> Time(7, 1, 15, 0)]
    /\ plans[1].usage_cost = RAdd(pre.usage_cost, Frac(-281, 1000))

\* the off-peak rates of the two price plans, by month
OffPeakRate(name, month) ==
    IF name = "E13"
    THEN IF month \in {7, 8} THEN Frac(730, 10000)
         ELSE IF month \in {11, 12, 1, 2, 3, 4} THEN Frac(691, 10000)
         ELSE Frac(727, 10000)
    ELSE IF month \in {7, 8} THEN Frac(412, 10000)
         ELSE IF month \in {11, 12, 1, 2, 3, 4} THEN Frac(370, 10000)
         ELSE Frac(360, 10000)

\* C19: an import on a Saturday or Sunday is charged at the off-peak rate of the
\* month under both plans, at every hour, and under E15 it raises no daily
\* peak (the 0h call opens the day's slot at 0 as on any day).
C19_WeekendOffPeak ==
    (/\ lastOp = "calc_usage_cost"
     /\ lastArg.time.weekday \in {5, 6}
     /\ RLt(R(0), lastArg.e)) =>
        /\ lastExc = "none"
        /\ plans[1].usage_cost =
                RAdd(pre.usage_cost,
                     RMul(lastArg.e, OffPeakRate(pre.name, lastArg.time.month)))
        /\ plans[1].daily_peaks =
                IF pre.name = "E15" /\ lastArg.time.hour = 0
                THEN Append(pre.daily_peaks, R(0))
                ELSE pre.daily_peaks

\* C19's case: on a Saturday at 15h in July an import of 5 kWh, above the day's
\* peak of 2 kWh, leaves the peak as it was
C19_Witness ==
    /\ lastOp = "calc_usage_cost"
    /\ pre.name = "E15"
    /\ lastArg = [e |-> R(5), time |-> Time(7, 1, 15, 5)]
    /\ pre.daily_peaks = <<R(2)>>
    /\ plans[1].daily_peaks = <<R(2)>>

-----------------------------------------------------------------------------
(* One calendar day of the E15 plan: the 24 hourly calc_usage_cost calls of   *)
(* line 324, hour 0 first, with any grid energy in each hour                   *)

\* (month, weekday) of the day: a July Monday, a January Monday and a July
\* Saturday
DayTypes == {<<7, 0>>, <<1, 0>>, <<7, 5>>}

DayEnergies == {R(-5), R(0), R(5), R(10)}

\* the plan at midnight: newly reset, or with an earlier day of the month in it
DayPlans ==
    LET e15 == EnergyPlan("E15")
    IN  {e15, [e15 EXCEPT !.daily_peaks = <<R(10)>>, !.usage_cost = R(1)]}

InitDay ==
    /\ panels = <<>>
    /\ batteries = <<>>
    /\ \E p \in DayPlans : plans = <<p>> /\ twin = p
    /\ cur = [panel |-> 0, battery |-> 0, plan |-> 1]
    /\ InitGhosts
    /\ InitScript
    /\ \E d \in DayTypes : clock = Time(d[1], 6, 0, d[2])

NextDay ==
    /\ clock.hour < 24
    /\ \E e \in DayEnergies : UsageStep(clock, e)
    /\ clock' = [clock EXCEPT !.hour = clock.hour + 1]
    /\ UNCHANGED pc

SpecDay == InitDay /\ [][NextDay]_vars

\* C13: through the 24 hourly calc_usage_cost calls of a day, the day's entry of
\* daily_peaks is the larger of 0 and the largest energy imported in the day's
\* on-peak hours so far; a call in an off-peak hour or with an export leaves the
\* entry as it was, and the entries of earlier days are never touched.
C13_DailyPeak ==
    lastOp = "calc_usage_cost" =>
        LET now == plans[1].daily_peaks
            old == pre.daily_peaks
            n == Len(now)
            t == lastArg.time
        IN  /\ lastExc = "none"
            /\ n = Len(old) + (IF t.hour = 0 THEN 1 ELSE 0)
            /\ now[n] = dayMax
            /\ SubSeq(now, 1, n - 1) = SubSeq(old, 1, n - 1)
            /\ (t.hour # 0 /\ (~OnPeak(t) \/ RLe(lastArg.e, R(0)))) => now = old
            /\ t.hour = 0 => now[n] = R(0)

\* C13's case: a July Monday is over, 5 kWh were imported on-peak, nothing else
\* was charged, and the day's peak is 5
C13_Witness ==
    /\ clock = Time(7, 6, 24, 0)
    /\ pre.daily_peaks # <<>>
    /\ plans[1].usage_cost = RMul(R(5), Frac(622, 10000))
    /\ plans[1].daily_peaks = <<R(5)>>
    /\ dayMax = R(5)

-----------------------------------------------------------------------------
(* A panel of any rated power and degradation rate under any sequence of      *)
(* solar_sim calls                                                             *)

\* the hourly factor of line 94 is 9/10, 1/2, 0 and -1 for these annual rates
DegradationRates == {R(876), R(4380), R(8760), R(17520)}

PanelPowers == {R(0), R(1), R(2), R(3)}

Irradiances == {R(0), Frac(1, 2), R(1)}

InitPanel ==
    /\ \E p \in PanelPowers, d \in DegradationRates :
            panels = <<SolarPanel("P", p, Frac(-9, 2500), d, R(42), Frac(19, 20))>>
    /\ batteries = <<>>
    /\ plans = <<>>
    /\ cur = [panel |-> 1, battery |-> 0, plan |-> 0]
    /\ twin = EnergyPlan("E13")
    /\ InitDriver
    /\ InitScript

NextPanel ==
    calls < MaxPanelCalls /\ \E irr \in Irradiances, temp \in {R(25), R(40)} :
        SolarSimCall(irr, temp)

SpecPanel == InitPanel /\ [][NextPanel]_vars

-----------------------------------------------------------------------------
(* The equipment combinations: the objects of the module-level lists under any
   sequence of combination starts and calls on the combination's objects *)

NoCombination == [panel |-> 0, battery |-> 0, plan |-> 0]

\* line 329: results[f'{panel.name}:{battery.name}:{plan.name}'] = monthly_bills
FinishCombination ==
    /\ cur # NoCombination
    /\ results' = Append(results,
                         [key |-> <<panels[cur.panel].name, batteries[cur.battery].name,
                                    plans[cur.plan].name>>,
                          bills |-> monthly_bills])
    /\ lastOp' = "finish"
    /\ lastArg' = NoArg
    /\ lastRet' = R(0)
    /\ lastExc' = "none"
    /\ calls' = calls + 1
    /\ UNCHANGED <<panels, batteries, plans, cur, twin, clamp, peakMean, sumIn,
                   sumRet, twinRet, pre, dayMax, clock>>
    /\ UNCHANGED <<pc, today, monthly_bills, load_data, solar_data>>

Init ==
    /\ panels = PanelCatalogue
    /\ batteries = BatteryCatalogue
    /\ plans = PlanCatalogue
    /\ cur = NoCombination
    /\ twin = EnergyPlan("E13")
    /\ InitDriver
    /\ InitScript

Next ==
    \/ \E i \in DOMAIN panels, j \in DOMAIN batteries, k \in DOMAIN plans :
            calls < MaxOps /\ SelectCombination(i, j, k) /\ UNCHANGED pc
    \/ calls < MaxOps /\ SolarSimCall(R(1), R(25))
    \/ \E e \in {R(-3), R(3)} : calls < MaxOps /\ BatterySimCall(e)
    \/ \E t \in {Time(1, 6, 0, 0), Time(7, 6, 15, 0)} :
            calls < MaxOps /\ CalcUsageCostCall(t, R(3))
    \/ calls < MaxOps /\ CalcTotalCostCall(Time(1, 31, 23, 4))
    \/ calls < MaxOps /\ FinishCombination

Spec == Init /\ [][Next]_vars

\* C6: when a combination's run starts, the panel's power is its rating at
\* standard test conditions, the battery's soc is 0 and the plan is as a newly
\* constructed plan is, whatever was simulated before.
C6_NoLeakBetweenCombinations ==
    lastOp = "select" =>
        /\ panels[cur.panel].power = PanelCatalogue[cur.panel].power
        /\ batteries[cur.battery].soc = R(0)
        /\ plans[cur.plan] = EnergyPlan(plans[cur.plan].name)

-----------------------------------------------------------------------------
(* The script's simulation, lines 278-329, as written *)

\* year for the load simulation data
year == 2020
\* number of years for the simulation to run
num_years == 1

IsLeap(y) == (y % 4 = 0 /\ y % 100 # 0) \/ y % 400 = 0
DaysIn(y) == IF IsLeap(y) THEN 366 ELSE 365

\* datetime.date(year + num_years, 1, 1), counted in days from the last day of
\* year - 1 as today is
end_date == DaysIn(year) * num_years + 1

Stamp(month, day, hour) == [month |-> month, day |-> day, hour |-> hour]

\* rows of the two files: the first hours of 1 and 2 January
Stamps == {Stamp(1, 1, 0), Stamp(1, 1, 1), Stamp(1, 2, 0)}

RECURSIVE SeqsUpTo(_, _)
SeqsUpTo(S, n) ==
    IF n = 0 THEN {<<>>}
    ELSE LET shorter == SeqsUpTo(S, n - 1)
         IN  shorter \cup {Append(q, x) : q \in shorter, x \in S}

InitSim ==
    /\ panels = PanelCatalogue
    /\ batteries = BatteryCatalogue
    /\ plans = PlanCatalogue
    /\ cur = NoCombination
    /\ twin = EnergyPlan("E13")
    /\ InitDriver
    /\ pc = "start"
    /\ today = 0
    /\ monthly_bills = <<>>
    /\ results = <<>>
    /\ load_data \in SeqsUpTo(Stamps, MaxRows)
    /\ solar_data \in SeqsUpTo(Stamps, MaxRows)

\* lines 288-293: the first combination of the three for loops begins
SimStart ==
    /\ pc = "start"
    /\ SelectCombination(1, 1, 1)
    /\ pc' = "loop"

\* lines 294-300, the first pass of the while loop.  load_data[day_idx] raises
\* IndexError when the file has no row day_idx; otherwise line 300 raises
\* AttributeError: datetime is the module (line 6), which has no strptime, and
\* load_data_now is bound nowhere.  Nothing catches either, so the script ends
\* here: lines 301-329 never run and today is never advanced.
SimIterate ==
    /\ pc = "loop"
    /\ today < end_date
    /\ LET day_idx == today
       IN  lastExc' = IF day_idx + 1 > Len(load_data) THEN "IndexError"
                      ELSE "AttributeError"
    /\ pc' = "raised"
    /\ lastOp' = "iterate"
    /\ lastArg' = NoArg
    /\ lastRet' = R(0)
    /\ calls' = calls + 1
    /\ UNCHANGED <<panels, batteries, plans, cur, twin, clamp, peakMean, sumIn,
                   sumRet, twinRet, pre, dayMax, clock>>
    /\ UNCHANGED <<today, monthly_bills, results, load_data, solar_data>>

NextSim == SimStart \/ SimIterate

SpecSim == InitSim /\ [][NextSim]_vars

\* the files hold the weather row and the load row of the first simulated hour
FirstHourPresent == Len(load_data) >= 2 /\ Len(solar_data) >= 1

\* C8: a run visits every hour of the year and bills on the last hour of each
\* month: when it is over, it has appended 12 bills for the year.
C8_TwelveBills ==
    (FirstHourPresent /\ pc \in {"raised", "done"}) =>
        Len(monthly_bills) = 12 * num_years

\* C9: when the weather row and the load row of the simulated hour carry
\* different timestamps, the run ends with the date/time mismatch error of
\* line 305 and with no bills recorded.
C9_MismatchRaises ==
    (/\ FirstHourPresent
     /\ solar_data[1] # load_data[1]
     /\ pc = "raised") => lastExc = "ValueError" /\ results = <<>>

\* calendar.monthrange(year, month)[1], line 326
DaysInMonth(y, m) ==
    IF m = 2 THEN (IF IsLeap(y) THEN 29 ELSE 28)
    ELSE IF m \in {4, 6, 9, 11} THEN 30 ELSE 31

\* timetuple().tm_yday, line 296
RECURSIVE DayOfYear(_, _, _)
DayOfYear(y, m, d) ==
    IF m = 1 THEN d ELSE DaysInMonth(y, m - 1) + DayOfYear(y, m - 1, d)

\* datetime.weekday() of a date: the days since Monday 1 January of year 1
Weekday(y, m, d) ==
    LET before == (y - 1) * 365 + (y - 1) \div 4 - (y - 1) \div 100 + (y - 1) \div 400
    IN  (before + DayOfYear(y, m, d) - 1) % 7

\* a load of 1 kWh in every hour, with the first combination: no panel, no
\* battery, plan E13
ConstantLoad == R(1)

\* what hour number n of month m (0 is hour 0 of day 1) costs under E13 at the
\* constant load
HourCost(m, n) ==
    LET d == n \div 24 + 1
        t == Time(m, d, n % 24, Weekday(year, m, d))
    IN  RMul(ConstantLoad, e13_rate(t, ConstantLoad))

\* what the hours lo..hi of month m cost, summed by halves
RECURSIVE HoursCost(_, _, _)
HoursCost(m, lo, hi) ==
    IF lo > hi THEN R(0)
    ELSE IF lo = hi THEN HourCost(m, lo)
    ELSE LET mid == (lo + hi) \div 2
         IN  RAdd(HoursCost(m, lo, mid), HoursCost(m, mid + 1, hi))

MonthCost(m) == HoursCost(m, 0, 24 * DaysInMonth(year, m) - 1)

\* C17: every hour is billed in the bill of its own month and in no other: when
\* the run with a constant hourly load, no generation and no battery is over,
\* there are 12 bills and the bill of each month is the service charge plus the
\* cost of that month's hours.
C17_HoursBilledOnce ==
    (FirstHourPresent /\ pc \in {"raised", "done"}) =>
        /\ Len(monthly_bills) = 12 * num_years
        /\ \A m \in 1..12 :
                monthly_bills[m] =
                    RAdd(service_charge, MonthCost(m))

-----------------------------------------------------------------------------
(* The calls of lines 324-327 on the E15 plan, hour after hour through the    *)
(* year from hour 0 of 1 January: calc_usage_cost in every hour and            *)
(* calc_total_cost after the last hour of each month                           *)

\* the grid energies of a day's hours, repeated through the day and the year
LoadPatterns == {<<R(0)>>, <<R(5)>>, <<R(10), R(-5)>>, <<R(-5), R(0), R(5)>>}

\* line 323 for the hour of the clock
grid_energy == load_data[(clock.hour % Len(load_data)) + 1]

\* line 326: day == calendar.monthrange(year, month)[1] and hour == 23
LastHourOfMonth(time) ==
    time.day = DaysInMonth(year, time.month) /\ time.hour = 23

\* the hour after time
NextHour(time) ==
    IF time.hour < 23 THEN [time EXCEPT !.hour = time.hour + 1]
    ELSE IF time.day < DaysInMonth(year, time.month)
    THEN Time(time.month, time.day + 1, 0, (time.weekday + 1) % 7)
    ELSE Time(time.month + 1, 1, 0, (time.weekday + 1) % 7)

InitHours ==
    /\ panels = <<>>
    /\ batteries = <<>>
    /\ plans = <<EnergyPlan("E15")>>
    /\ twin = EnergyPlan("E15")
    /\ cur = [panel |-> 0, battery |-> 0, plan |-> 1]
    /\ InitGhosts
    /\ clock = Time(1, 1, 0, Weekday(year, 1, 1))
    /\ pc = "hour"
    /\ today = 1
    /\ monthly_bills = <<>>
    /\ results = <<>>
    /\ load_data \in LoadPatterns
    /\ solar_data = <<>>

\* line 324, and the test of line 326; an exception ends the run
HourAccumulate ==
    /\ pc = "hour"
    /\ UsageStep(clock, grid_energy)
    /\ pc' = IF lastExc' # "none" THEN "raised"
             ELSE IF LastHourOfMonth(clock) THEN "bill"
             ELSE "hour"
    /\ clock' = IF lastExc' = "none" /\ ~LastHourOfMonth(clock)
                THEN NextHour(clock) ELSE clock

\* line 327, in the last hour of a month
HourSettle ==
    /\ pc = "bill"
    /\ TotalStep(clock)
    /\ pc' = IF clock.month = 12 THEN "done" ELSE "hour"
    /\ clock' = IF clock.month = 12 THEN clock ELSE NextHour(clock)

NextHours == HourAccumulate \/ HourSettle

SpecHours == InitHours /\ [][NextHours]_vars

\* the days of the open billing period whose hour 0 has been accumulated
DaysStarted ==
    IF pc = "done" THEN 0
    ELSE IF pc = "hour" /\ clock.hour = 0 THEN clock.day - 1
    ELSE clock.day

====
